---- MODULE Spec2Model ----
(***************************************************************************)
(* Model of app.py, a Streamlit time-tracking dashboard.                   *)
(*                                                                         *)
(* Streamlit re-executes the whole script, top to bottom, on every user    *)
(* event and on every auto-refresh.  One such execution is a "pass"; every *)
(* action of this model is one pass (followed by the pass that st.rerun()  *)
(* starts, where the script calls it).  Durable state is the JSON file     *)
(* (data_file) and st.session_state (session_state); `data` is re-loaded   *)
(* from the file at the top of every pass.                                 *)
(*                                                                         *)
(* Time is the system clock in whole seconds since the Unix epoch; a pass  *)
(* reads it once.  Day keys "%Y-%m-%d" are triples <<y, m, d>>, ordered as *)
(* the zero-padded strings are.                                            *)
(***************************************************************************)
EXTENDS Integers, Sequences, FiniteSets, TLC

VARIABLES
    data_file,        \* contents of productive_time.json (defaults when absent)
    session_state,    \* st.session_state
    clock,            \* system clock at the last pass (epoch seconds)
    rendered,         \* the last pass ran to the end of the script
    shown,            \* what the last pass handed to the presentation layer
    back_steps,       \* how many times the system clock has stepped backward
    run_plain,        \* history: the timer runs since a Start from Idle, with
                      \* no Start and no pass in Pomodoro mode since
    run_start         \* history: the clock at that Start (0 unless run_plain)

vars == <<data_file, session_state, clock, rendered, shown, back_steps,
          run_plain, run_start>>

(***************************************************************************)
(* Bounds of the model.                                                    *)
(***************************************************************************)
Quantum == 300          \* granularity of the clock deltas between passes
MaxTicks == 6           \* the clock stays within ClockBase + MaxTicks * Quantum
MaxSessions == 2        \* sessions in the log
MaxBackSteps == 1       \* backward steps of the system clock in one behaviour
StorePasses == 5        \* the passes of a behaviour of SpecStore
LongPasses == 5         \* the passes of a behaviour of SpecFull
LiveTicks == 12          \* the clock of SpecLive stays within ClockBase + LiveTicks * Quantum

(***************************************************************************)
(* Program constants.                                                      *)
(***************************************************************************)
IstOffset == 19800      \* pytz 'Asia/Kolkata' is UTC+05:30, no DST

(***************************************************************************)
(* datetime arithmetic (proleptic Gregorian calendar, as Python's).        *)
(***************************************************************************)
DaysFromCivil(y, m, d) ==
    LET yy  == IF m <= 2 THEN y - 1 ELSE y
        era == yy \div 400
        yoe == yy - era * 400
        mp  == IF m > 2 THEN m - 3 ELSE m + 9
        doy == (153 * mp + 2) \div 5 + d - 1
        doe == yoe * 365 + yoe \div 4 - yoe \div 100 + doy
    IN  era * 146097 + doe - 719468

CivilFromDays(z) ==
    LET zz  == z + 719468
        era == zz \div 146097
        doe == zz - era * 146097
        yoe == (doe - doe \div 1460 + doe \div 36524 - doe \div 146096) \div 365
        doy == doe - (365 * yoe + yoe \div 4 - yoe \div 100)
        mp  == (5 * doy + 2) \div 153
        d   == doy - (153 * mp + 2) \div 5 + 1
        m   == IF mp < 10 THEN mp + 3 ELSE mp - 9
        y   == yoe + era * 400 + (IF m <= 2 THEN 1 ELSE 0)
    IN  <<y, m, d>>

\* date + timedelta(days = n)
AddDays(date, n) == CivilFromDays(DaysFromCivil(date[1], date[2], date[3]) + n)

\* date.weekday(): Monday is 0
Weekday(date) == (DaysFromCivil(date[1], date[2], date[3]) + 3) % 7

\* get_india_now() at system clock t: local seconds since the epoch
IndiaSeconds(t) == t + IstOffset

\* get_india_now().date(), and the key strftime("%Y-%m-%d") makes of it
get_india_now_date(t) == CivilFromDays(IndiaSeconds(t) \div 86400)

\* seconds since local midnight
IndiaSecondOfDay(t) == IndiaSeconds(t) % 86400

\* the system clock of a local civil instant
ClockOf(y, m, d, hh, mm, ss) ==
    DaysFromCivil(y, m, d) * 86400 + hh * 3600 + mm * 60 + ss - IstOffset

\* order of "%Y-%m-%d" strings
KeyLess(a, b) ==
    \/ a[1] < b[1]
    \/ a[1] = b[1] /\ a[2] < b[2]
    \/ a[1] = b[1] /\ a[2] = b[2] /\ a[3] < b[3]

(***************************************************************************)
(* The persisted store: load_data / save_data.                             *)
(***************************************************************************)
DefaultStore ==
    [ daily_time |-> << >>,
      sessions   |-> << >>,
      goals      |-> [daily |-> 8 * 3600, weekly |-> 40 * 3600],
      categories |-> <<"Work", "Study", "Personal", "Exercise">>,
      settings   |-> [theme |-> "dark", pomodoro |-> [work |-> 25, break |-> 5]] ]

\* the file: status "absent" (os.path.exists is false), "ok" (holds json) or
\* "corrupt" (it exists and json.load raises on it; its json field is unused)
AbsentFile == [status |-> "absent", json |-> DefaultStore]

CorruptFile == [status |-> "corrupt", json |-> DefaultStore]

\* load_data() returns: json.load (line 28) does not raise
Loads(file) == file.status # "corrupt"

\* what load_data() returns when it returns
load_data(file) == IF file.status = "absent" THEN DefaultStore ELSE file.json

save_data(data) == [status |-> "ok", json |-> data]

\* data["daily_time"][key] = value, adding the key when it is new
SetDay(daily_time, key, value) ==
    [k \in DOMAIN daily_time \cup {key} |-> IF k = key THEN value ELSE daily_time[k]]

\* st.session_state after lines 194-211 of the first pass of a browser session
InitSessionState(data) ==
    [ start_time          |-> 0,        \* None (falsy, as 0 is)
      timer_running       |-> FALSE,
      live_elapsed        |-> 0,
      current_category    |-> "Work",
      session_note        |-> "",
      pomodoro_mode       |-> FALSE,
      pomodoro_work_time  |-> data.settings.pomodoro.work * 60,
      pomodoro_break_time |-> data.settings.pomodoro.break * 60,
      is_break            |-> FALSE ]

(***************************************************************************)
(* Analytics helpers.                                                      *)
(***************************************************************************)
Max(a, b) == IF a >= b THEN a ELSE b

\* timedelta -> int(total_seconds()): days, seconds and microseconds are
\* normalised with 0 <= microseconds < 10^6; int() truncates toward zero
IntTotalSeconds(whole, micro) ==
    IF whole < 0 /\ micro > 0 THEN whole + 1 ELSE whole

\* a faulty variant of NextMonthStart: December rolls to January of the same
\* year (C10 depends on the year + 1 of line 140)
NextMonthStart_SameYear(date) ==
    IF date[2] = 12 THEN <<date[1], 1, 1>> ELSE <<date[1], date[2] + 1, 1>>

\* first day of the month after the month of `date`, 00:00:00
NextMonthStart(date) ==
    IF date[2] = 12 THEN <<date[1] + 1, 1, 1>> ELSE <<date[1], date[2] + 1, 1>>

\* get_remaining_month() at system clock t plus micro microseconds
get_remaining_month(t, micro) ==
    LET now_date   == get_india_now_date(t)
        next_month == NextMonthStart(now_date)
        \* whole seconds from the second of `now` to next_month
        to_next == (DaysFromCivil(next_month[1], next_month[2], next_month[3])
                    - DaysFromCivil(now_date[1], now_date[2], now_date[3])) * 86400
                   - IndiaSecondOfDay(t)
        \* end - now = to_next seconds - (micro + 1) microseconds, normalised
        whole   == to_next - 1
        frac    == 1000000 - (micro + 1)
        seconds == IntTotalSeconds(whole, frac)
    IN  Max(0, seconds)

\* sorted(data["daily_time"].keys()) as a sequence
RECURSIVE SortedKeys(_)
SortedKeys(keys) ==
    IF keys = {} THEN << >>
    ELSE LET least == CHOOSE k \in keys : \A o \in keys : o = k \/ KeyLess(k, o)
         IN  <<least>> \o SortedKeys(keys \ {least})

\* the loop of get_streak from index i on
RECURSIVE StreakLoop(_, _, _, _)
StreakLoop(daily_time, dates, current_date, i) ==
    IF i >= Len(dates) THEN 0
    ELSE LET key == dates[Len(dates) - i]
         IN  IF daily_time[key] > 0
             THEN IF key = AddDays(current_date, -i)
                  THEN 1 + StreakLoop(daily_time, dates, current_date, i + 1)
                  ELSE 0
             ELSE 0

get_streak(daily_time, t) ==
    LET dates == SortedKeys(DOMAIN daily_time)
    IN  IF dates = << >> THEN 0
        ELSE StreakLoop(daily_time, dates, get_india_now_date(t), 0)

\* the loop of get_weekly_time over range(i, 7)
RECURSIVE WeekLoop(_, _, _)
WeekLoop(daily_time, week_start, i) ==
    IF i >= 7 THEN 0
    ELSE LET date_str == AddDays(week_start, i)
         IN  (IF date_str \in DOMAIN daily_time THEN daily_time[date_str] ELSE 0)
             + WeekLoop(daily_time, week_start, i + 1)

\* a faulty variant of get_weekly_time: the week starts on Sunday (C8 depends
\* on the now.weekday() of line 180)
get_weekly_time_SundayStart(daily_time, t) ==
    LET now_date   == get_india_now_date(t)
        week_start == AddDays(now_date, -((Weekday(now_date) + 1) % 7))
    IN  WeekLoop(daily_time, week_start, 0)

get_weekly_time(daily_time, t) ==
    LET now_date   == get_india_now_date(t)
        week_start == AddDays(now_date, -Weekday(now_date))
    IN  WeekLoop(daily_time, week_start, 0)

(***************************************************************************)
(* One pass of the script.  A pass is a record                             *)
(*   data  the dict loaded at line 49, as mutated so far                   *)
(*   file  the JSON file                                                   *)
(*   ss    st.session_state                                                *)
(*   out   what has been handed to the presentation layer                  *)
(*   halt  "no", or why the script stopped early: "rerun" (st.rerun())     *)
(*         or "error" (an uncaught exception)                              *)
(* and each stage below maps a pass to a pass.  `ev` is the widget event   *)
(* that caused the pass ("refresh" for none) and `arg` its value.          *)
(***************************************************************************)
NoProgress == <<0, 0>>

\* a faulty variant of LoadStage: today's entry is set to 0 even when it is
\* there (C15 depends on the test of line 51)
LoadStage_ResetsToday(file, ss, now) ==
    LET data      == load_data(file)
        today_str == get_india_now_date(now)
    IN  [ data  |-> [data EXCEPT !.daily_time = SetDay(@, today_str, 0)],
          file  |-> file,
          ss    |-> ss,
          out   |-> [remaining_month |-> 0, streak |-> 0, weekly_time |-> 0,
                     daily_progress |-> NoProgress],
          halt  |-> IF Loads(file) THEN "no" ELSE "error" ]

\* lines 49-52: load, and make sure today has an entry; the exception of
\* json.load is not caught and ends the run of the script
LoadStage(file, ss, now) ==
    LET data      == load_data(file)
        today_str == get_india_now_date(now)
    IN  [ data  |-> IF today_str \in DOMAIN data.daily_time THEN data
                    ELSE [data EXCEPT !.daily_time = SetDay(@, today_str, 0)],
          file  |-> file,
          ss    |-> ss,
          out   |-> [remaining_month |-> 0, streak |-> 0, weekly_time |-> 0,
                     daily_progress |-> NoProgress],
          halt  |-> IF Loads(file) THEN "no" ELSE "error" ]

\* lines 219-225: theme selector
ThemeStage(p, ev, arg) ==
    LET theme_option == IF ev = "theme" THEN arg ELSE p.data.settings.theme
    IN  IF theme_option # p.data.settings.theme
        THEN LET data == [p.data EXCEPT !.settings.theme = theme_option]
             IN  [p EXCEPT !.data = data, !.file = save_data(data), !.halt = "rerun"]
        ELSE p

\* line 228: the selectbox returns the chosen option, or the first option when
\* the chosen one is no longer offered
CategoryStage(p, ev, arg) ==
    LET chosen  == IF ev = "category" THEN arg ELSE p.ss.current_category
        options == p.data.categories
        offered == \E i \in 1..Len(options) : options[i] = chosen
    IN  [p EXCEPT !.ss.current_category = IF offered THEN chosen ELSE options[1]]

\* lines 231-233: session note
NoteStage(p, ev, arg) ==
    IF ev = "note" THEN [p EXCEPT !.ss.session_note = arg] ELSE p

\* lines 236-249: Pomodoro checkbox and, when it is on, the two sliders
PomodoroSettingsStage(p, ev, arg) ==
    LET mode == IF ev = "pomodoro" THEN ~p.ss.pomodoro_mode ELSE p.ss.pomodoro_mode
        q    == [p EXCEPT !.ss.pomodoro_mode = mode]
        work_min  == IF ev = "sliders" THEN arg[1] ELSE p.data.settings.pomodoro.work
        break_min == IF ev = "sliders" THEN arg[2] ELSE p.data.settings.pomodoro.break
    IN  IF mode /\ (work_min # p.data.settings.pomodoro.work
                    \/ break_min # p.data.settings.pomodoro.break)
        THEN LET data == [p.data EXCEPT !.settings.pomodoro =
                                            [work |-> work_min, break |-> break_min]]
             IN  [q EXCEPT !.data = data,
                           !.ss.pomodoro_work_time  = work_min * 60,
                           !.ss.pomodoro_break_time = break_min * 60,
                           !.file = save_data(data)]
        ELSE q

\* lines 252-259: goal sliders (hours)
GoalsStage(p, ev, arg) ==
    LET daily_goal  == IF ev = "goals" THEN arg[1] ELSE p.data.goals.daily \div 3600
        weekly_goal == IF ev = "goals" THEN arg[2] ELSE p.data.goals.weekly \div 3600
    IN  IF daily_goal # p.data.goals.daily \div 3600
           \/ weekly_goal # p.data.goals.weekly \div 3600
        THEN LET data == [p.data EXCEPT !.goals = [daily  |-> daily_goal * 3600,
                                                   weekly |-> weekly_goal * 3600]]
             IN  [p EXCEPT !.data = data, !.file = save_data(data)]
        ELSE p

\* lines 270-284: header
HeaderStage(p, now, micro) ==
    [p EXCEPT !.out.remaining_month = get_remaining_month(now, micro),
              !.out.streak = get_streak(p.data.daily_time, now)]

\* a faulty variant of Tick: start_time is not moved to now, so that the next
\* tick counts the same seconds again (C1 depends on line 295)
Tick_NoRebase(ss, now) ==
    IF ss.timer_running
    THEN [ss EXCEPT !.live_elapsed = @ + (now - (IF ss.start_time # 0
                                                  THEN ss.start_time ELSE now))]
    ELSE ss

\* lines 291-295: if running, update live_elapsed
Tick(ss, now) ==
    IF ss.timer_running
    THEN [ss EXCEPT !.live_elapsed = @ + (now - (IF ss.start_time # 0
                                                  THEN ss.start_time ELSE now)),
                    !.start_time = now]
    ELSE ss

\* a faulty variant of PomodoroLogic: the seconds beyond the boundary are
\* carried into the next phase (C6 depends on the resets of lines 303, 310)
PomodoroLogic_CarriesExcess(ss, now) ==
    IF ss.pomodoro_mode /\ ss.timer_running
    THEN IF ~ss.is_break
         THEN IF ss.pomodoro_work_time - ss.live_elapsed <= 0
              THEN [ss EXCEPT !.is_break = TRUE,
                              !.live_elapsed = @ - ss.pomodoro_work_time,
                              !.start_time = now]
              ELSE ss
         ELSE IF ss.pomodoro_break_time - ss.live_elapsed <= 0
              THEN [ss EXCEPT !.is_break = FALSE,
                              !.live_elapsed = @ - ss.pomodoro_break_time,
                              !.start_time = now]
              ELSE ss
    ELSE ss

\* a faulty variant of PomodoroLogic: the end of the break is not looked for
\* (C18 depends on lines 306-312)
PomodoroLogic_BreakNeverEnds(ss, now) ==
    IF ss.pomodoro_mode /\ ss.timer_running /\ ~ss.is_break
       /\ ss.pomodoro_work_time - ss.live_elapsed <= 0
    THEN [ss EXCEPT !.is_break = TRUE, !.live_elapsed = 0, !.start_time = now]
    ELSE ss

\* a faulty variant of PomodoroLogic: a phase ends only once live_elapsed is
\* beyond its duration (C20 depends on the <= of lines 301 and 308)
PomodoroLogic_LateBoundary(ss, now) ==
    IF ss.pomodoro_mode /\ ss.timer_running
    THEN IF ~ss.is_break
         THEN IF ss.pomodoro_work_time - ss.live_elapsed < 0
              THEN [ss EXCEPT !.is_break = TRUE, !.live_elapsed = 0, !.start_time = now]
              ELSE ss
         ELSE IF ss.pomodoro_break_time - ss.live_elapsed < 0
              THEN [ss EXCEPT !.is_break = FALSE, !.live_elapsed = 0, !.start_time = now]
              ELSE ss
    ELSE ss

\* lines 297-312: Pomodoro logic
PomodoroLogic(ss, now) ==
    IF ss.pomodoro_mode /\ ss.timer_running
    THEN IF ~ss.is_break
         THEN IF ss.pomodoro_work_time - ss.live_elapsed <= 0
              THEN [ss EXCEPT !.is_break = TRUE, !.live_elapsed = 0, !.start_time = now]
              ELSE ss
         ELSE IF ss.pomodoro_break_time - ss.live_elapsed <= 0
              THEN [ss EXCEPT !.is_break = FALSE, !.live_elapsed = 0, !.start_time = now]
              ELSE ss
    ELSE ss

TimerStage(p, now) == [p EXCEPT !.ss = PomodoroLogic(Tick(p.ss, now), now)]

\* line 331: the numerator and denominator of daily_progress
DailyProgress(data, ss, today_str) ==
    <<data.daily_time[today_str] + ss.live_elapsed, data.goals.daily>>

\* min(progress, 1.0), as a fraction
Clamp(progress) == IF progress[1] >= progress[2] THEN <<1, 1>> ELSE progress

\* lines 328-338: progress bars; st.progress raises on a value below 0.0
ProgressStage(p, now) ==
    LET daily_progress == DailyProgress(p.data, p.ss, get_india_now_date(now))
    IN  IF daily_progress[1] < 0
        THEN [p EXCEPT !.halt = "error"]
        ELSE [p EXCEPT !.out.daily_progress = Clamp(daily_progress),
                       !.out.weekly_time = get_weekly_time(p.data.daily_time, now)]

\* lines 345-348: Start button
StartHandler(ss, now) ==
    [ss EXCEPT !.start_time = now, !.timer_running = TRUE, !.live_elapsed = 0]

\* lines 354-361: the session record
NewSession(ss, now) ==
    [ date       |-> get_india_now_date(now),
      start_time |-> now,
      duration   |-> ss.live_elapsed,
      category   |-> ss.current_category,
      note       |-> ss.session_note,
      pomodoro   |-> ss.pomodoro_mode ]

\* a faulty variant of Commit: break time is counted too (C2 depends on the
\* test of line 365)
Commit_CountsBreak(data, ss, now) ==
    LET today_str == get_india_now_date(now)
        logged    == [data EXCEPT !.sessions = Append(@, NewSession(ss, now))]
    IN  [logged EXCEPT !.daily_time[today_str] = @ + ss.live_elapsed]

\* lines 362-366: append the session, and count work time
Commit(data, ss, now) ==
    LET today_str == get_india_now_date(now)
        logged    == [data EXCEPT !.sessions = Append(@, NewSession(ss, now))]
    IN  IF ~ss.is_break
        THEN [logged EXCEPT !.daily_time[today_str] = @ + ss.live_elapsed]
        ELSE logged

\* a faulty variant of StopHandler: a Stop with nothing elapsed is committed
\* too (C19 depends on the > of line 352)
StopHandler_LogsEmpty(p, now) ==
    LET q == IF p.ss.live_elapsed >= 0
             THEN LET data == Commit(p.data, p.ss, now)
                  IN  [p EXCEPT !.data = data, !.file = save_data(data),
                                !.ss.live_elapsed = 0, !.ss.session_note = ""]
             ELSE p
    IN  [q EXCEPT !.ss.timer_running = FALSE, !.ss.start_time = 0,
                  !.ss.is_break = FALSE]

\* lines 350-372: Stop button
StopHandler(p, now) ==
    LET q == IF p.ss.live_elapsed > 0
             THEN LET data == Commit(p.data, p.ss, now)
                  IN  [p EXCEPT !.data = data, !.file = save_data(data),
                                !.ss.live_elapsed = 0, !.ss.session_note = ""]
             ELSE p
    IN  [q EXCEPT !.ss.timer_running = FALSE, !.ss.start_time = 0,
                  !.ss.is_break = FALSE]

ButtonsStage(p, ev, now) ==
    IF ev = "start" THEN [p EXCEPT !.ss = StartHandler(p.ss, now)]
    ELSE IF ev = "stop" THEN StopHandler(p, now)
    ELSE p

\* the membership test of line 450
HasCategory(categories, c) == \E i \in 1..Len(categories) : categories[i] = c

\* list.remove(x): drop the first occurrence
RemoveFirst(categories, c) ==
    LET i == CHOOSE j \in 1..Len(categories) :
                 categories[j] = c /\ \A k \in 1..(j - 1) : categories[k] # c
    IN  SubSeq(categories, 1, i - 1) \o SubSeq(categories, i + 1, Len(categories))

\* a faulty variant of AddCategory: no membership test (C9 depends on
\* line 450)
AddCategory_NoMembershipTest(p, new_category) ==
    IF new_category # ""
    THEN LET data == [p.data EXCEPT !.categories = Append(@, new_category)]
         IN  [p EXCEPT !.data = data, !.file = save_data(data), !.halt = "rerun"]
    ELSE p

\* lines 448-453: add a category
AddCategory(p, new_category) ==
    IF new_category # "" /\ ~HasCategory(p.data.categories, new_category)
    THEN LET data == [p.data EXCEPT !.categories = Append(@, new_category)]
         IN  [p EXCEPT !.data = data, !.file = save_data(data), !.halt = "rerun"]
    ELSE p

\* a faulty variant of RemoveCategory: the sessions of the category go with
\* it (C16 depends on line 460 touching the category list only)
RemoveCategory_DropsSessions(p, i) ==
    IF i \in 1..Len(p.data.categories) /\ Len(p.data.categories) > 1
    THEN LET gone == p.data.categories[i]
             data == [p.data EXCEPT
                        !.categories = RemoveFirst(@, gone),
                        !.sessions = SelectSeq(@, LAMBDA x : x.category # gone)]
         IN  [p EXCEPT !.data = data, !.file = save_data(data), !.halt = "rerun"]
    ELSE p

\* lines 456-462: the Remove button of row i
RemoveCategory(p, i) ==
    IF i \in 1..Len(p.data.categories) /\ Len(p.data.categories) > 1
    THEN LET data == [p.data EXCEPT !.categories = RemoveFirst(@, p.data.categories[i])]
         IN  [p EXCEPT !.data = data, !.file = save_data(data), !.halt = "rerun"]
    ELSE p

SettingsTabStage(p, ev, arg) ==
    IF ev = "add" THEN AddCategory(p, arg)
    ELSE IF ev = "remove" THEN RemoveCategory(p, arg)
    ELSE p

\* a stage runs only while the script has not stopped
Then(p, q) == IF p.halt = "no" THEN q ELSE p

\* the script, top to bottom, for one event; each stage's result is bound once
RunStages(file, ss, now, micro, ev, arg) ==
    CHOOSE done \in
        { Then(p7, SettingsTabStage(p7, ev, arg)) : p7 \in
        { Then(p6, ButtonsStage(p6, ev, now)) : p6 \in
        { Then(p5, ProgressStage(p5, now)) : p5 \in
        { Then(p4, TimerStage(HeaderStage(p4, now, micro), now)) : p4 \in
        { Then(p3, GoalsStage(p3, ev, arg)) : p3 \in
        { Then(p2, PomodoroSettingsStage(p2, ev, arg)) : p2 \in
        { Then(p1, NoteStage(CategoryStage(p1, ev, arg), ev, arg)) : p1 \in
        { Then(p0, ThemeStage(p0, ev, arg)) : p0 \in
        { LoadStage(file, ss, now) } } } } } } } } } : TRUE

\* a pass: the script, and again from the top (with no widget event) when it
\* ends in st.rerun()
RECURSIVE Pass(_, _, _, _, _, _)
Pass(file, ss, now, micro, ev, arg) ==
    CHOOSE done \in
        { IF p.halt = "rerun" THEN Pass(p.file, p.ss, now, micro, "refresh", 0) ELSE p
          : p \in { RunStages(file, ss, now, micro, ev, arg) } } : TRUE

(***************************************************************************)
(* The state machine: one action per kind of pass.                         *)
(***************************************************************************)
\* the system clock when the browser session opens: 2024-12-31 23:40:00 IST
ClockBase == ClockOf(2024, 12, 31, 23, 40, 0)

\* values the widgets are given
WorkMinutes == {15, 25}
BreakMinutes == {10}
DailyGoalHours == {1, 8}
WeeklyGoalHours == {40, 41}
Themes == {"dark", "light"}
Notes == {"", "deep work"}
NewCategories == {"", "Work", "Reading"}
Micros == {0, 500000, 999999}

\* views of the state
Store == load_data(data_file)
Today == get_india_now_date(clock)
DailyTimeOf(store, key) ==
    IF key \in DOMAIN store.daily_time THEN store.daily_time[key] ELSE 0

\* the state a pass at clock + d leaves; "start" is handled when the script
\* reaches line 345
Step(ev, arg, d, micro) ==
    \E now \in {clock + d} :
    \E p \in {Pass(data_file, session_state, now, micro, ev, arg)} :
    LET started == ev = "start" /\ p.halt = "no"
        plain   == IF ~p.ss.timer_running THEN FALSE
                   ELSE IF started THEN ~session_state.timer_running
                   ELSE run_plain /\ ~p.ss.pomodoro_mode
    IN  /\ Len(load_data(p.file).sessions) <= MaxSessions
        /\ data_file' = p.file
        /\ session_state' = p.ss
        /\ clock' = now
        /\ rendered' = (p.halt = "no")
        /\ shown' = p.out
        /\ back_steps' = IF d < 0 THEN back_steps + 1 ELSE back_steps
        /\ run_plain' = plain
        /\ run_start' = IF ~plain THEN 0 ELSE IF started THEN now ELSE run_start

\* a pass within a horizon h: the clock deltas it allows, and how far the
\* clock may run from ClockBase
Timed(h, ev, arg) ==
    \E d \in h.deltas :
        /\ clock + d >= ClockBase
        /\ clock + d <= ClockBase + h.span
        /\ d < 0 => back_steps < MaxBackSteps
        /\ Step(ev, arg, d, 0)

\* lines 469-472: the pass the auto-refresh starts while the timer runs
Refresh(h) == session_state.timer_running /\ rendered /\ Timed(h, "refresh", 0)

Start(h) == rendered /\ Timed(h, "start", 0)

Stop(h) == rendered /\ Timed(h, "stop", 0)

TogglePomodoro(h) == Timed(h, "pomodoro", 0)

ChangeSliders(h) ==
    /\ session_state.pomodoro_mode
    /\ \E w \in WorkMinutes, b \in BreakMinutes :
          /\ <<w, b>> # <<Store.settings.pomodoro.work, Store.settings.pomodoro.break>>
          /\ Timed(h, "sliders", <<w, b>>)

ChangeGoals(h) ==
    \E g \in DailyGoalHours, w \in WeeklyGoalHours :
        /\ <<g, w>> # <<Store.goals.daily \div 3600, Store.goals.weekly \div 3600>>
        /\ Timed(h, "goals", <<g, w>>)

ChangeTheme(h) == \E t \in Themes : t # Store.settings.theme /\ Timed(h, "theme", t)

SelectCategory(h) ==
    \E i \in 1..Len(Store.categories) :
        /\ Store.categories[i] # session_state.current_category
        /\ Timed(h, "category", Store.categories[i])

EditNote(h) == \E n \in Notes : n # session_state.session_note /\ Timed(h, "note", n)

AddCategoryClick(h) == rendered /\ \E c \in NewCategories : Timed(h, "add", c)

RemoveCategoryClick(h) ==
    rendered /\ \E i \in 1..Len(Store.categories) : Timed(h, "remove", i)

\* the browser session opens: the first pass
FirstPass(file, now) ==
    Pass(file, InitSessionState(load_data(file)), now, 0, "refresh", 0)

InitOn(file, now) ==
    \E p \in {FirstPass(file, now)} :
        /\ data_file = p.file
        /\ session_state = p.ss
        /\ clock = now
        /\ rendered = (p.halt = "no")
        /\ shown = p.out
        /\ back_steps = 0
        /\ run_plain = FALSE
        /\ run_start = 0

\* no file yet: the default store
Init == InitOn(AbsentFile, ClockBase)

\* the timer and its accounting, in passes minutes apart
Coarse == [deltas |-> {-Quantum, Quantum, 3 * Quantum}, span |-> MaxTicks * Quantum]

Next ==
    \/ Refresh(Coarse)
    \/ Start(Coarse)
    \/ Stop(Coarse)
    \/ TogglePomodoro(Coarse)
    \/ ChangeSliders(Coarse)

Spec == Init /\ [][Next]_vars

\* every handler of the script, in passes one second apart
Fine == [deltas |-> {1}, span |-> StorePasses]

StoreNext ==
    \/ Refresh(Fine)
    \/ Start(Fine)
    \/ Stop(Fine)
    \/ TogglePomodoro(Fine)
    \/ ChangeSliders(Fine)
    \/ ChangeGoals(Fine)
    \/ ChangeTheme(Fine)
    \/ SelectCategory(Fine)
    \/ EditNote(Fine)
    \/ AddCategoryClick(Fine)
    \/ RemoveCategoryClick(Fine)

SpecStore == Init /\ [][StoreNext]_vars

\* every handler of the script, in passes a quarter of an hour apart: Pomodoro
\* phases end between the edits
Long == [deltas |-> {3 * Quantum}, span |-> LongPasses * 3 * Quantum]

FullNext ==
    \/ Refresh(Long)
    \/ Start(Long)
    \/ Stop(Long)
    \/ TogglePomodoro(Long)
    \/ ChangeSliders(Long)
    \/ ChangeGoals(Long)
    \/ ChangeTheme(Long)
    \/ SelectCategory(Long)
    \/ EditNote(Long)
    \/ AddCategoryClick(Long)
    \/ RemoveCategoryClick(Long)

SpecFull == Init /\ [][FullNext]_vars

\* the page is opened again (a new browser session): st.session_state is
\* new, and the script runs on the file as it is.  When load_data() raises,
\* lines 194-211 are not reached and st.session_state stays without keys; no
\* run of the script reads it before those lines, and the model keeps the
\* values they would set.
Reload(h) ==
    \E d \in h.deltas :
        /\ clock + d >= ClockBase
        /\ clock + d <= ClockBase + h.span
        /\ d < 0 => back_steps < MaxBackSteps
        /\ \E p \in {FirstPass(data_file, clock + d)} :
              /\ data_file' = p.file
              /\ session_state' = p.ss
              /\ clock' = clock + d
              /\ rendered' = (p.halt = "no")
              /\ shown' = p.out
              /\ back_steps' = IF d < 0 THEN back_steps + 1 ELSE back_steps
              /\ run_plain' = FALSE
              /\ run_start' = 0

\* the session opens on no file or on a file that is not well-formed
InitLoad == \E file \in {AbsentFile, CorruptFile} : InitOn(file, ClockBase)

LoadNext ==
    \/ Reload(Fine)
    \/ Refresh(Fine)
    \/ Start(Fine)
    \/ Stop(Fine)
    \/ ChangeTheme(Fine)
    \/ ChangeGoals(Fine)

SpecLoad == InitLoad /\ [][LoadNext]_vars

\* the timer left to the auto-refresh, with a clock that only advances: the
\* user sets Pomodoro up and starts while the timer is Idle, never clicks
\* Stop, and may tick or untick Pomodoro at any time.  Lines 469-472 run the
\* script again for as long as the timer runs, hence the weak fairness of
\* Refresh.
Forward == [deltas |-> {Quantum, 3 * Quantum}, span |-> LiveTicks * Quantum]

LiveNext ==
    \/ Refresh(Forward)
    \/ ~session_state.timer_running /\ Start(Forward)
    \/ TogglePomodoro(Forward)
    \/ ~session_state.timer_running /\ ChangeSliders(Forward)

\* Refresh(Forward) can be taken: the script ran to lines 469-472 with the timer
\* running, and the clock of the model has a pass left (Refresh appends no
\* session, so the bound on the log does not stop it)
RefreshDue ==
    /\ session_state.timer_running
    /\ rendered
    /\ clock + Quantum <= ClockBase + Forward.span

\* weak fairness of Refresh(Forward), i.e. WF_vars(Refresh(Forward)) with its
\* ENABLED written out as RefreshDue
RefreshFair == []<>~RefreshDue \/ []<><<Refresh(Forward)>>_vars

SpecLive == Init /\ [][LiveNext]_vars /\ RefreshFair

\* the analytics, as functions of the store and of the instant: the browser
\* session opens on a store with any history of the days around the turn of
\* the year, or on the default store at an instant of 2024 or 2025, and the
\* user edits the note, which runs the script again within the same second
AnalyticDays ==
    { <<2024, 12, 29>>, <<2024, 12, 30>>, <<2024, 12, 31>>,
      <<2025, 1, 1>>, <<2025, 1, 5>>, <<2025, 1, 6>> }

AnalyticSeconds == {0, 3, 5}

AnalyticStores ==
    { [DefaultStore EXCEPT !.daily_time = m] :
        m \in UNION { [K -> AnalyticSeconds] : K \in SUBSET AnalyticDays } }

\* half past midnight, local time, of the days of AnalyticDays
AnalyticInstants == { ClockOf(k[1], k[2], k[3], 0, 30, 0) : k \in AnalyticDays }

MonthInstants ==
    { ClockOf(y, m, d, t[1], t[2], t[3]) :
        y \in {2024, 2025}, m \in 1..12, d \in {1, 15, 28, 29, 30, 31},
        t \in { <<0, 0, 0>>, <<12, 0, 0>>, <<23, 59, 50>>, <<23, 59, 59>> } }

InitAnalytics ==
    \/ \E store \in AnalyticStores, now \in AnalyticInstants :
           InitOn(save_data(store), now)
    \/ \E now \in MonthInstants : InitOn(AbsentFile, now)

AnalyticsPass ==
    \E n \in Notes, micro \in Micros :
        n # session_state.session_note /\ Step("note", n, 0, micro)

SpecAnalytics == InitAnalytics /\ [][AnalyticsPass]_vars

(***************************************************************************)
(* Vocabulary of the claims.                                               *)
(***************************************************************************)
\* this step is a pass that handled a click on Stop
StopStep == rendered /\ rendered' /\ Step("stop", 0, clock' - clock, 0)

\* session_state when this step's pass reaches the buttons (after its Tick
\* and its Pomodoro boundary check)
AtButtons == PomodoroLogic(Tick(session_state, clock'), clock')

DayKeys == DOMAIN Store.daily_time \cup DOMAIN Store'.daily_time

\* no DailyTime entry changes in this step (an absent day counts 0)
DailyTimeSame == \A k \in DayKeys : DailyTimeOf(Store', k) = DailyTimeOf(Store, k)

\* this step appends exactly one session, of duration t
AppendsOne(t) ==
    /\ Len(Store'.sessions) = Len(Store.sessions) + 1
    /\ SubSeq(Store'.sessions, 1, Len(Store.sessions)) = Store.sessions
    /\ Store'.sessions[Len(Store'.sessions)].duration = t

FracEq(a, b) == a[1] * b[2] = b[1] * a[2]

(***************************************************************************)
(* C1: with Pomodoro mode off for the whole run, Start from Idle, ticks    *)
(* whose clock deltas total t > 0, then Stop: DailyTime of the day current *)
(* at Stop grows by exactly t, no other day changes, and exactly one       *)
(* Session, of duration t, is appended.                                    *)
(***************************************************************************)
C1_StartStopCommits ==
    [][ (run_plain /\ ~session_state.pomodoro_mode /\ clock' - run_start > 0
         /\ StopStep)
        => /\ AppendsOne(clock' - run_start)
           /\ DailyTimeOf(Store', Today') = DailyTimeOf(Store, Today') + (clock' - run_start)
           /\ \A k \in DayKeys \ {Today'} : DailyTimeOf(Store', k) = DailyTimeOf(Store, k)
      ]_vars

\* two plain sessions committed on the same day, the second on top of the first
C1_Witness ==
    /\ ~session_state.timer_running /\ rendered
    /\ Len(Store.sessions) = 2
    /\ ~Store.sessions[1].pomodoro /\ ~Store.sessions[2].pomodoro
    /\ Store.sessions[1].date = Today /\ Store.sessions[2].date = Today
    /\ Store.sessions[2].start_time = clock
    /\ DailyTimeOf(Store, Today) = Store.sessions[1].duration + Store.sessions[2].duration

(***************************************************************************)
(* C2: a Stop handled while is_break is true (before the pass, or when the *)
(* handler runs) changes no DailyTime entry; a Stop changes DailyTime only *)
(* for the current day, only with is_break false, and by exactly the       *)
(* elapsed seconds it commits.                                             *)
(***************************************************************************)
C2_BreakNeverCounts ==
    [][ StopStep
        => /\ (session_state.is_break \/ AtButtons.is_break) => DailyTimeSame
           /\ \A k \in DayKeys :
                 DailyTimeOf(Store', k) # DailyTimeOf(Store, k)
                 => /\ k = Today'
                    /\ ~AtButtons.is_break
                    /\ DailyTimeOf(Store', k) = DailyTimeOf(Store, k) + AtButtons.live_elapsed
      ]_vars

\* a break was stopped: its session is in the log and its day's total is 0
C2_Witness ==
    /\ ~session_state.timer_running
    /\ Len(Store.sessions) = 1
    /\ Store.sessions[1].duration > 0
    /\ Store.sessions[1].pomodoro
    /\ DailyTimeOf(Store, Store.sessions[1].date) = 0

(***************************************************************************)
(* C3: every Stop handled while the timer is Running in the break phase    *)
(* appends exactly one Session, with duration > 0.                         *)
(***************************************************************************)
C3_BreakStopAlwaysLogs ==
    [][ (StopStep /\ session_state.timer_running /\ session_state.is_break)
        => /\ Len(Store'.sessions) = Len(Store.sessions) + 1
           /\ SubSeq(Store'.sessions, 1, Len(Store.sessions)) = Store.sessions
           /\ Store'.sessions[Len(Store'.sessions)].duration > 0
      ]_vars

(***************************************************************************)
(* C4: while the timer is Running in the break phase, the daily progress   *)
(* handed to the presentation layer is DailyTime[today] / daily goal,      *)
(* clamped to [0, 1].                                                      *)
(***************************************************************************)
C4_BreakProgressIsDailyTime ==
    (rendered /\ session_state.timer_running /\ session_state.is_break)
    => FracEq(shown.daily_progress,
              Clamp(<<DailyTimeOf(Store, Today), Store.goals.daily>>))

(***************************************************************************)
(* C5: Stop handled when Idle appends no Session, changes no DailyTime     *)
(* entry, and leaves the timer Idle with live_elapsed = 0 and is_break     *)
(* false.                                                                  *)
(***************************************************************************)
C5_StopWhenIdleIsNoOp ==
    [][ (StopStep /\ ~session_state.timer_running)
        => /\ Store'.sessions = Store.sessions
           /\ DailyTimeSame
           /\ ~session_state'.timer_running
           /\ session_state'.live_elapsed = 0
           /\ ~session_state'.is_break
      ]_vars

(***************************************************************************)
(* C6: the Pomodoro boundary is a hard cutover.  In a pass in Pomodoro     *)
(* mode whose Tick brings live_elapsed of a running work phase to at least *)
(* the work duration, live_elapsed ends 0 (the excess is dropped), no      *)
(* Session is appended and no DailyTime entry changes; the phase ends as   *)
(* break, once (a Stop handled later in the same pass resets it with the   *)
(* timer).  Symmetrically from break to work with the break duration.      *)
(***************************************************************************)
\* live_elapsed after this step's Tick
TickedElapsed ==
    session_state.live_elapsed + (clock' - session_state.start_time)

C6_HardCutover ==
    [][ (session_state.timer_running /\ session_state'.pomodoro_mode)
        => /\ (~session_state.is_break
               /\ TickedElapsed >= session_state'.pomodoro_work_time)
              => /\ session_state'.live_elapsed = 0
                 /\ session_state'.is_break = session_state'.timer_running
                 /\ Store'.sessions = Store.sessions
                 /\ DailyTimeSame
           /\ (session_state.is_break
               /\ TickedElapsed >= session_state'.pomodoro_break_time)
              => /\ session_state'.live_elapsed = 0
                 /\ ~session_state'.is_break
                 /\ Store'.sessions = Store.sessions
                 /\ DailyTimeSame
      ]_vars

\* a work phase has just been cut over to a break, nothing recorded
C6_Witness ==
    /\ rendered
    /\ session_state.timer_running /\ session_state.pomodoro_mode
    /\ session_state.is_break /\ session_state.live_elapsed = 0
    /\ session_state.start_time = clock
    /\ Store.sessions = << >>

(***************************************************************************)
(* C7: the streak every pass shows is the largest n such that              *)
(* DailyTime[today - i] > 0 for all 0 <= i < n, over the store the pass    *)
(* loads, whatever days the store has entries for (absent counts 0).       *)
(***************************************************************************)
ConsecutiveDays(store, today, n) ==
    \A i \in 0..(n - 1) : DailyTimeOf(store, AddDays(today, -i)) > 0

LongestStreak(store, today) ==
    CHOOSE n \in 0..Cardinality(DOMAIN store.daily_time) :
        /\ ConsecutiveDays(store, today, n)
        /\ ~ConsecutiveDays(store, today, n + 1)

C7_StreakCountsBackFromToday ==
    [][ shown'.streak = LongestStreak(Store, Today') ]_vars

(***************************************************************************)
(* C8: the weekly total every completed pass shows is the sum of           *)
(* DailyTime[d] over the days d, Monday to Sunday, of the week today is    *)
(* in; entries before that Monday or after that Sunday add nothing.        *)
(***************************************************************************)
RECURSIVE SumDays(_, _)
SumDays(store, keys) ==
    IF keys = {} THEN 0
    ELSE LET k == CHOOSE x \in keys : TRUE
         IN  store.daily_time[k] + SumDays(store, keys \ {k})

DayNumber(key) == DaysFromCivil(key[1], key[2], key[3])

InWeekOf(key, today) ==
    LET monday == DayNumber(today) - Weekday(today)
    IN  monday <= DayNumber(key) /\ DayNumber(key) <= monday + 6

C8_WeeklyTotalIsMondayToSunday ==
    rendered =>
        shown.weekly_time =
            SumDays(Store, {k \in DOMAIN Store.daily_time : InWeekOf(k, Today)})

\* Tuesday 2024-12-31: 3 + 5 in the week, 5 on the Sunday before it and 3 on
\* the Monday after it
C8_Witness ==
    /\ Today = <<2024, 12, 31>>
    /\ session_state.session_note # ""
    /\ DailyTimeOf(Store, <<2024, 12, 29>>) = 5
    /\ DailyTimeOf(Store, <<2024, 12, 30>>) = 3
    /\ DailyTimeOf(Store, <<2025, 1, 5>>) = 5
    /\ DailyTimeOf(Store, <<2025, 1, 6>>) = 3
    /\ shown.weekly_time = 8

(***************************************************************************)
(* C9: the category list always holds at least one entry, no duplicate and *)
(* no empty string; a click on Add with an empty string or a string        *)
(* already in the list, and a click on Remove with a single category left, *)
(* leave the whole store unchanged (stated contrapositively: no step that  *)
(* changes the file is the pass of such a click).                          *)
(***************************************************************************)
CategoriesValid(categories) ==
    /\ Len(categories) >= 1
    /\ \A i \in 1..Len(categories) : categories[i] # ""
    /\ \A i, j \in 1..Len(categories) : categories[i] = categories[j] => i = j

C9_CategoryEditsValidated ==
    /\ [] CategoriesValid(Store.categories)
    /\ [][ /\ \A c \in NewCategories :
                (rendered /\ (c = "" \/ HasCategory(Store.categories, c))
                 /\ data_file' # data_file)
                => ~Step("add", c, clock' - clock, 0)
           /\ \A i \in 1..Len(Store.categories) :
                (rendered /\ Len(Store.categories) = 1
                 /\ data_file' # data_file)
                => ~Step("remove", i, clock' - clock, 0)
        ]_vars

\* one category is left, after three removals and one more pass
C9_Witness ==
    /\ Len(Store.categories) = 1
    /\ rendered
    /\ clock = ClockBase + 4

(***************************************************************************)
(* C10: the remaining month every pass shows is the whole seconds from the *)
(* second of now to 23:59:59 of the last day of the local month, never     *)
(* below 0; at 2024-12-31 23:59:50 it is 9.                                *)
(***************************************************************************)
DaysInMonth(y, m) ==
    IF m = 2
    THEN IF (y % 4 = 0 /\ y % 100 # 0) \/ y % 400 = 0 THEN 29 ELSE 28
    ELSE IF m \in {4, 6, 9, 11} THEN 30 ELSE 31

SecondsToMonthEnd(t) ==
    LET date == get_india_now_date(t)
    IN  (DaysInMonth(date[1], date[2]) - date[3]) * 86400
        + (86399 - IndiaSecondOfDay(t))

C10_RemainingMonth ==
    /\ shown.remaining_month = SecondsToMonthEnd(clock)
    /\ shown.remaining_month >= 0
    /\ clock = ClockOf(2024, 12, 31, 23, 59, 50) => shown.remaining_month = 9

\* the script has run again at 2024-12-31 23:59:50
C10_Witness ==
    /\ clock = ClockOf(2024, 12, 31, 23, 59, 50)
    /\ session_state.session_note # ""
    /\ shown.remaining_month = 9

\* this step is the pass of a click on Start, run to its end
StartStep == rendered /\ rendered' /\ Step("start", 0, clock' - clock, 0)

(***************************************************************************)
(* C11: a click on Start handled while the timer is Running leaves         *)
(* live_elapsed as the pass's tick and boundary check left it: the seconds *)
(* accumulated before the repeated Start are kept.                         *)
(***************************************************************************)
C11_RestartKeepsElapsed ==
    [][ (session_state.timer_running
         /\ session_state'.live_elapsed # AtButtons.live_elapsed)
        => ~StartStep
      ]_vars

(***************************************************************************)
(* C12: live_elapsed is >= 0 in every reachable state, and the tick of a   *)
(* pass never lowers it, wherever the clock has gone since the last pass.  *)
(***************************************************************************)
C12_TickIsMonotonic ==
    /\ [] (session_state.live_elapsed >= 0)
    /\ [][ session_state.timer_running
           => Tick(session_state, clock').live_elapsed >= session_state.live_elapsed
        ]_vars

(***************************************************************************)
(* C13: with Pomodoro mode off in the pass that handles Stop and           *)
(* live_elapsed > 0 when the handler runs, the seconds committed are added *)
(* to DailyTime of the current day, whatever happened before (Pomodoro     *)
(* mode switched on and off again while the timer was running included).   *)
(***************************************************************************)
C13_PlainStopCountsAsWork ==
    [][ (~session_state.pomodoro_mode /\ ~session_state'.pomodoro_mode
         /\ session_state.timer_running
         /\ AtButtons.live_elapsed > 0
         /\ DailyTimeOf(Store', Today')
              # DailyTimeOf(Store, Today') + AtButtons.live_elapsed)
        => ~StopStep
      ]_vars

(***************************************************************************)
(* C14: every Stop leaves the timer Idle with live_elapsed = 0 and         *)
(* is_break false; every Idle state has live_elapsed = 0 and is_break      *)
(* false; Start from Idle enters Running in the work phase with            *)
(* live_elapsed = 0.                                                       *)
(***************************************************************************)
IdleClean(ss) == ~ss.timer_running /\ ss.live_elapsed = 0 /\ ~ss.is_break

C14_IdleIsClean ==
    /\ [] (~session_state.timer_running => IdleClean(session_state))
    /\ [][ (~IdleClean(session_state')) => ~StopStep ]_vars
    /\ [][ (~session_state.timer_running
            /\ ~(session_state'.timer_running /\ ~session_state'.is_break
                 /\ session_state'.live_elapsed = 0))
           => ~StartStep ]_vars

(***************************************************************************)
(* C15: no DailyTime entry ever decreases (an absent day counts 0), and an *)
(* entry changes only in the pass of a Stop that commits work time: it is  *)
(* today's entry, is_break is false when the handler runs, and it grows by *)
(* the seconds committed.  Every other pass leaves every entry unchanged.  *)
(***************************************************************************)
C15_DailyTimeOnlyGrowsOnStop ==
    [][ \A k \in DayKeys :
          /\ DailyTimeOf(Store', k) >= DailyTimeOf(Store, k)
          /\ DailyTimeOf(Store', k) # DailyTimeOf(Store, k)
             => /\ k = Today'
                /\ ~AtButtons.is_break
                /\ DailyTimeOf(Store', k) = DailyTimeOf(Store, k) + AtButtons.live_elapsed
                /\ StopStep
      ]_vars

\* a session was committed in the second pass, and the goals, the theme and
\* the categories were edited in the three passes after it
C15_Witness ==
    /\ Len(Store.sessions) = 1
    /\ Store.sessions[1].start_time = ClockBase + 2 * 3 * Quantum
    /\ DailyTimeOf(Store, Store.sessions[1].date) = 3 * Quantum
    /\ clock = ClockBase + 5 * 3 * Quantum
    /\ Store.goals.daily = 3600
    /\ Store.settings.theme = "light"
    /\ Len(Store.categories) = 3

(***************************************************************************)
(* C16: the session log is append-only: in every step the log before is a  *)
(* prefix of the log after; removing a category leaves the log, and so the *)
(* category of every logged session, as it was.                            *)
(***************************************************************************)
C16_SessionLogAppendOnly ==
    [][ /\ Len(Store.sessions) <= Len(Store'.sessions)
        /\ SubSeq(Store'.sessions, 1, Len(Store.sessions)) = Store.sessions
      ]_vars

\* a session is logged under a category that has since been removed
C16_Witness ==
    \E i \in 1..Len(Store.sessions) :
        ~HasCategory(Store.categories, Store.sessions[i].category)

(***************************************************************************)
(* C17: on a persisted file that exists and is not well-formed, the load   *)
(* of a pass gives the default store (with today's entry) and the pass     *)
(* runs to its end; and the file stays as it is until a save succeeds.     *)
(***************************************************************************)
C17_CorruptFileFallsBack ==
    /\ [] (data_file.status = "corrupt"
           => /\ rendered
              /\ \E p \in {LoadStage(data_file, session_state, clock)} :
                    /\ p.halt = "no"
                    /\ p.data = [DefaultStore EXCEPT
                                   !.daily_time = SetDay(<< >>, Today, 0)])
    /\ [][ (data_file.status = "corrupt" /\ data_file' # data_file)
           => data_file'.status = "ok" ]_vars

(***************************************************************************)
(* C18: under weak fairness of the auto-refresh and an advancing clock, a  *)
(* timer Running in Pomodoro mode in the work phase eventually enters the  *)
(* break phase, and one in the break phase eventually returns to the work  *)
(* phase, unless the user unticks Pomodoro first (Start and Stop are not   *)
(* clicked while it runs).  The clock of the model ends: the phases the    *)
(* property speaks of are those whose end lies before that.                *)
(***************************************************************************)
\* the passes of the smallest delta that cover `need` seconds fit in what is
\* left of the clock
FitsBeforeEnd(need) ==
    clock + Quantum * ((need + Quantum - 1) \div Quantum)
        <= ClockBase + Forward.span

InPomodoroPhase(break) ==
    /\ session_state.timer_running
    /\ session_state.pomodoro_mode
    /\ session_state.is_break = break

LeftPomodoro == ~session_state.timer_running \/ ~session_state.pomodoro_mode

C18_PhasesAlternate ==
    /\ (InPomodoroPhase(FALSE)
        /\ FitsBeforeEnd(session_state.pomodoro_work_time - session_state.live_elapsed))
       ~> (InPomodoroPhase(TRUE) \/ LeftPomodoro)
    /\ (InPomodoroPhase(TRUE)
        /\ FitsBeforeEnd(session_state.pomodoro_break_time - session_state.live_elapsed))
       ~> (InPomodoroPhase(FALSE) \/ LeftPomodoro)

\* back in the work phase, in a pass that is not the pass of Start: a work
\* phase of 15 minutes and a break of 10 have run to their ends
C18_Witness ==
    /\ InPomodoroPhase(FALSE)
    /\ ~run_plain
    /\ session_state.live_elapsed = 0
    /\ session_state.pomodoro_work_time = 900
    /\ session_state.pomodoro_break_time = 600
    /\ session_state.start_time = clock
    /\ rendered
    /\ clock >= ClockBase + 900 + 600
    /\ Store.sessions = << >>

(***************************************************************************)
(* C19: from the empty store, DailyTime of every day is the sum of the     *)
(* durations of the sessions of that day that were committed with is_break *)
(* false: it is 0 at first, and every step adds to it exactly the duration *)
(* of the session the step appends for that day outside a break.  Hence it *)
(* never exceeds the sum of the durations of all the sessions of the day;  *)
(* and every session of the log has a duration > 0.                        *)
(***************************************************************************)
RECURSIVE SumDurations(_, _)
SumDurations(sessions, day) ==
    IF sessions = << >> THEN 0
    ELSE (IF Head(sessions).date = day THEN Head(sessions).duration ELSE 0)
         + SumDurations(Tail(sessions), day)

\* the sessions this step appends
Appended == SubSeq(Store'.sessions, Len(Store.sessions) + 1, Len(Store'.sessions))

C19_DailyTimeIsSumOfWorkSessions ==
    /\ [] (\A k \in DOMAIN Store.daily_time :
              /\ Store.daily_time[k] >= 0
              /\ Store.daily_time[k] <= SumDurations(Store.sessions, k))
    /\ [] (\A i \in 1..Len(Store.sessions) : Store.sessions[i].duration > 0)
    /\ [][ \A k \in DayKeys :
             DailyTimeOf(Store', k) - DailyTimeOf(Store, k)
               = IF Appended = << >> \/ AtButtons.is_break THEN 0
                 ELSE SumDurations(Appended, k)
        ]_vars

\* a day with a break session and a work session: its total is the work
\* session's duration
C19_Witness ==
    \E i, j \in 1..Len(Store.sessions) :
        /\ i # j
        /\ Store.sessions[i].date = Store.sessions[j].date
        /\ Store.sessions[i].pomodoro
        /\ DailyTimeOf(Store, Store.sessions[j].date) = Store.sessions[j].duration
        /\ Store.sessions[i].duration > 0

(***************************************************************************)
(* C20: a session committed by a pass in Pomodoro mode has a duration      *)
(* strictly below the duration of the phase the timer is in after the      *)
(* pass's boundary check; and no pass in Pomodoro mode adds the work       *)
(* duration or more to a DailyTime entry.                                  *)
(***************************************************************************)
C20_PomodoroCommitsLessThanPhase ==
    [][ session_state'.pomodoro_mode
        => /\ \A i \in 1..Len(Appended) :
                Appended[i].duration
                  < (IF AtButtons.is_break THEN session_state'.pomodoro_break_time
                     ELSE session_state'.pomodoro_work_time)
           /\ \A k \in DayKeys :
                DailyTimeOf(Store', k) - DailyTimeOf(Store, k)
                  < session_state'.pomodoro_work_time
      ]_vars

\* ten minutes of a work phase of 25 were committed in Pomodoro mode
C20_Witness ==
    /\ Len(Store.sessions) = 1
    /\ Store.sessions[1].pomodoro
    /\ Store.sessions[1].duration = 2 * Quantum
    /\ DailyTimeOf(Store, Store.sessions[1].date) = 2 * Quantum
    /\ session_state.pomodoro_work_time = 1500
    /\ ~session_state.timer_running

====
